---- MODULE Spec2Model ----
(***************************************************************************)
(* Keyboard translation layer of the macOS backend                         *)
(* (src/platform_impl/macos/event.rs): the scancode table, the two         *)
(* character tables, the function-key decoder and the modifier transition  *)
(* detector, each with the calls that exercise it.                         *)
(*                                                                         *)
(* Option<T> is a sequence of length at most one: None is << >> and        *)
(* Some(x) is <<x>>.  A bitflags value (NSEventModifierFlags,              *)
(* ModifiersState) is the set of the flags it holds; contains is inclusion.*)
(* A char is a one-character string; U+0060, which a TLA+ string cannot    *)
(* hold, is GRAVE_ACCENT.  A &str is the sequence of its Unicode scalar    *)
(* values.                                                                 *)
(***************************************************************************)
EXTENDS Integers, Sequences, FiniteSets, TLC

\* ------------------------------------------------------------------ bounds

\* Longest text handed to check_function_keys.
MaxLen == 2

\* Largest keyCode of the native events delivered (0x38 LShift, 0x39 caps
\* lock, 0x3a LAlt, 0x3b LControl, 0x3c RShift, ...).
MaxKeyCode == 60

\* c_ushort: an unsigned 16-bit integer.
USHRT_MAX == 65535

\* ------------------------------------------------------------------- types

None == << >>

Some(x) == <<x>>

unwrap(o) == o[1]

\* The VirtualKeyCode variants this file names.
VirtualKeyCode ==
    {"A", "Add", "Apostrophe", "B", "Back", "Backslash", "C", "Caret", "Comma", "D",
     "Decimal", "Delete", "Divide", "Down", "E", "End", "Equals", "Escape", "F", "F1", "F10",
     "F11", "F12", "F13", "F14", "F15", "F16", "F17", "F18", "F19", "F2", "F20", "F21",
     "F22", "F23", "F24", "F3", "F4", "F5", "F6", "F7", "F8", "F9", "G", "Grave", "H",
     "Home", "I", "Insert", "J", "K", "Key0", "Key1", "Key2", "Key3", "Key4", "Key5", "Key6",
     "Key7", "Key8", "Key9", "L", "LAlt", "LBracket", "LControl", "LShift", "LWin", "Left",
     "M", "Minus", "Multiply", "N", "Numlock", "Numpad0", "Numpad1", "Numpad2", "Numpad3",
     "Numpad4", "Numpad5", "Numpad6", "Numpad7", "Numpad8", "Numpad9", "NumpadEnter",
     "NumpadEquals", "O", "P", "PageDown", "PageUp", "Period", "Q", "R", "RAlt", "RBracket",
     "RControl", "RShift", "RWin", "Return", "Right", "S", "Semicolon", "Slash", "Space",
     "Subtract", "T", "Tab", "U", "Up", "V", "VolumeDown", "VolumeUp", "W", "X", "Y", "Yen",
     "Z"}

\* ModifiersState flags.
SHIFT == "SHIFT"

CTRL == "CTRL"

ALT == "ALT"

LOGO == "LOGO"

ModifiersState == {SHIFT, CTRL, ALT, LOGO}

\* NSEventModifierFlags: the four masks the file reads, and caps lock, a
\* flag of the native event the file never reads.
NSAlphaShiftKeyMask == "NSAlphaShiftKeyMask"

NSShiftKeyMask == "NSShiftKeyMask"

NSControlKeyMask == "NSControlKeyMask"

NSAlternateKeyMask == "NSAlternateKeyMask"

NSCommandKeyMask == "NSCommandKeyMask"

NSEventModifierFlags ==
    {NSAlphaShiftKeyMask, NSShiftKeyMask, NSControlKeyMask, NSAlternateKeyMask,
     NSCommandKeyMask}

\* bitflags: flags.contains(other)
contains(flags, other) == other \subseteq flags

\* bitflags: m.set(flag, value)
set(m, flag, value) == IF value THEN m \cup {flag} ELSE m \ {flag}

ElementState == {"Pressed", "Released"}

DEVICE_ID == "DEVICE_ID"

GRAVE_ACCENT == "U+0060"

\* ------------------------------------------------------------ char tables

\* The arms of char_to_keycode's match, in order: 'x' | 'X' => key.
char_to_keycode_arms ==
    << <<"a", "A", "A">>, <<"b", "B", "B">>, <<"c", "C", "C">>,
       <<"d", "D", "D">>, <<"e", "E", "E">>, <<"f", "F", "F">>,
       <<"g", "G", "G">>, <<"h", "H", "H">>, <<"i", "I", "I">>,
       <<"j", "J", "J">>, <<"k", "K", "K">>, <<"l", "L", "L">>,
       <<"m", "M", "M">>, <<"n", "N", "N">>, <<"o", "O", "O">>,
       <<"p", "P", "P">>, <<"q", "Q", "Q">>, <<"r", "R", "R">>,
       <<"s", "S", "S">>, <<"t", "T", "T">>, <<"u", "U", "U">>,
       <<"v", "V", "V">>, <<"w", "W", "W">>, <<"x", "X", "X">>,
       <<"y", "Y", "Y">>, <<"z", "Z", "Z">>, <<"1", "!", "Key1">>,
       <<"2", "@", "Key2">>, <<"3", "#", "Key3">>, <<"4", "$", "Key4">>,
       <<"5", "%", "Key5">>, <<"6", "^", "Key6">>, <<"7", "&", "Key7">>,
       <<"8", "*", "Key8">>, <<"9", "(", "Key9">>, <<"0", ")", "Key0">>,
       <<"=", "+", "Equals">>, <<"-", "_", "Minus">>, <<"]", "}", "RBracket">>,
       <<"[", "{", "LBracket">>, <<"'", "\"", "Apostrophe">>, <<";", ":", "Semicolon">>,
       <<"\\", "|", "Backslash">>, <<",", "<", "Comma">>, <<"/", "?", "Slash">>,
       <<".", ">", "Period">>, <<GRAVE_ACCENT, "~", "Grave">> >>

\* Faulty variant: only the first pattern of each arm is matched.
char_to_keycode_first_pattern(c) ==
    LET hits == {i \in DOMAIN char_to_keycode_arms : char_to_keycode_arms[i][1] = c}
    IN  IF hits = {} THEN None
        ELSE Some(char_to_keycode_arms[CHOOSE i \in hits : \A j \in hits : i <= j][3])

\* The first arm one of whose two patterns is c; the wildcard arm is None.
char_to_keycode(c) ==
    LET hits == {i \in DOMAIN char_to_keycode_arms :
                    \/ char_to_keycode_arms[i][1] = c
                    \/ char_to_keycode_arms[i][2] = c}
    IN  IF hits = {} THEN None
        ELSE Some(char_to_keycode_arms[CHOOSE i \in hits : \A j \in hits : i <= j][3])

\* The arms of keycode_to_char's match, in order: (key, shift) => char.
keycode_to_char_arms ==
    << <<"A", FALSE, "a">>, <<"A", TRUE, "A">>,
       <<"B", FALSE, "b">>, <<"B", TRUE, "B">>,
       <<"C", FALSE, "c">>, <<"C", TRUE, "C">>,
       <<"D", FALSE, "d">>, <<"D", TRUE, "D">>,
       <<"E", FALSE, "e">>, <<"E", TRUE, "E">>,
       <<"F", FALSE, "f">>, <<"F", TRUE, "F">>,
       <<"G", FALSE, "g">>, <<"G", TRUE, "G">>,
       <<"H", FALSE, "h">>, <<"H", TRUE, "H">>,
       <<"I", FALSE, "i">>, <<"I", TRUE, "I">>,
       <<"J", FALSE, "j">>, <<"J", TRUE, "J">>,
       <<"K", FALSE, "k">>, <<"K", TRUE, "K">>,
       <<"L", FALSE, "l">>, <<"L", TRUE, "L">>,
       <<"M", FALSE, "m">>, <<"M", TRUE, "M">>,
       <<"N", FALSE, "n">>, <<"N", TRUE, "N">>,
       <<"O", FALSE, "o">>, <<"O", TRUE, "O">>,
       <<"P", FALSE, "p">>, <<"P", TRUE, "P">>,
       <<"Q", FALSE, "q">>, <<"Q", TRUE, "Q">>,
       <<"R", FALSE, "r">>, <<"R", TRUE, "R">>,
       <<"S", FALSE, "s">>, <<"S", TRUE, "S">>,
       <<"T", FALSE, "t">>, <<"T", TRUE, "T">>,
       <<"U", FALSE, "u">>, <<"U", TRUE, "U">>,
       <<"V", FALSE, "v">>, <<"V", TRUE, "V">>,
       <<"W", FALSE, "w">>, <<"W", TRUE, "W">>,
       <<"X", FALSE, "x">>, <<"X", TRUE, "X">>,
       <<"Y", FALSE, "y">>, <<"Y", TRUE, "Y">>,
       <<"Z", FALSE, "z">>, <<"Z", TRUE, "Z">>,
       <<"Key1", FALSE, "1">>, <<"Key1", TRUE, "!">>,
       <<"Key2", FALSE, "2">>, <<"Key2", TRUE, "@">>,
       <<"Key3", FALSE, "3">>, <<"Key3", TRUE, "#">>,
       <<"Key4", FALSE, "4">>, <<"Key4", TRUE, "$">>,
       <<"Key5", FALSE, "5">>, <<"Key5", TRUE, "%">>,
       <<"Key6", FALSE, "6">>, <<"Key6", TRUE, "^">>,
       <<"Key7", FALSE, "7">>, <<"Key7", TRUE, "&">>,
       <<"Key8", FALSE, "8">>, <<"Key8", TRUE, "*">>,
       <<"Key9", FALSE, "9">>, <<"Key9", TRUE, "(">>,
       <<"Key0", FALSE, "0">>, <<"Key0", TRUE, ")">>,
       <<"Equals", FALSE, "=">>, <<"Equals", TRUE, "+">>,
       <<"Minus", FALSE, "-">>, <<"Minus", TRUE, "_">>,
       <<"RBracket", FALSE, "]">>, <<"RBracket", TRUE, "}">>,
       <<"LBracket", FALSE, "[">>, <<"LBracket", TRUE, "{">>,
       <<"Apostrophe", FALSE, "'">>, <<"Apostrophe", TRUE, "\"">>,
       <<"Semicolon", FALSE, ";">>, <<"Semicolon", TRUE, ":">>,
       <<"Backslash", FALSE, "\\">>, <<"Backslash", TRUE, "|">>,
       <<"Comma", FALSE, ",">>, <<"Comma", TRUE, "<">>,
       <<"Slash", FALSE, "/">>, <<"Slash", TRUE, "?">>,
       <<"Period", FALSE, ".">>, <<"Period", TRUE, ">">>,
       <<"Grave", FALSE, GRAVE_ACCENT>>, <<"Grave", TRUE, "~">> >>

\* The first arm whose pattern is (keycode, shift); the wildcard arm is None.
keycode_to_char_match(keycode, shift) ==
    LET hits == {i \in DOMAIN keycode_to_char_arms :
                    /\ keycode_to_char_arms[i][1] = keycode
                    /\ keycode_to_char_arms[i][2] = shift}
    IN  IF hits = {} THEN None
        ELSE Some(keycode_to_char_arms[CHOOSE i \in hits : \A j \in hits : i <= j][3])

\* Faulty variant: the SHIFT test is negated.
keycode_to_char_inverted(keycode, modifiers_state) ==
    keycode_to_char_match(keycode, ~contains(modifiers_state, {SHIFT}))

\* Faulty variant: any modifier held selects the shifted glyph.
keycode_to_char_any_modifier(keycode, modifiers_state) ==
    keycode_to_char_match(keycode, modifiers_state # {})

keycode_to_char(keycode, modifiers_state) ==
    keycode_to_char_match(keycode, contains(modifiers_state, {SHIFT}))

\* ---------------------------------------------------------- scancode table

\* The arms of scancode_to_keycode's match, in order (0x0a is the last).
scancode_to_keycode_arms ==
    << <<\h00, "A">>, <<\h01, "S">>, <<\h02, "D">>, <<\h03, "F">>,
       <<\h04, "H">>, <<\h05, "G">>, <<\h06, "Z">>, <<\h07, "X">>,
       <<\h08, "C">>, <<\h09, "V">>, <<\h0b, "B">>, <<\h0c, "Q">>,
       <<\h0d, "W">>, <<\h0e, "E">>, <<\h0f, "R">>, <<\h10, "Y">>,
       <<\h11, "T">>, <<\h12, "Key1">>, <<\h13, "Key2">>, <<\h14, "Key3">>,
       <<\h15, "Key4">>, <<\h16, "Key6">>, <<\h17, "Key5">>, <<\h18, "Equals">>,
       <<\h19, "Key9">>, <<\h1a, "Key7">>, <<\h1b, "Minus">>, <<\h1c, "Key8">>,
       <<\h1d, "Key0">>, <<\h1e, "RBracket">>, <<\h1f, "O">>, <<\h20, "U">>,
       <<\h21, "LBracket">>, <<\h22, "I">>, <<\h23, "P">>, <<\h24, "Return">>,
       <<\h25, "L">>, <<\h26, "J">>, <<\h27, "Apostrophe">>, <<\h28, "K">>,
       <<\h29, "Semicolon">>, <<\h2a, "Backslash">>, <<\h2b, "Comma">>, <<\h2c, "Slash">>,
       <<\h2d, "N">>, <<\h2e, "M">>, <<\h2f, "Period">>, <<\h30, "Tab">>,
       <<\h31, "Space">>, <<\h32, "Grave">>, <<\h33, "Back">>, <<\h35, "Escape">>,
       <<\h36, "RWin">>, <<\h37, "LWin">>, <<\h38, "LShift">>, <<\h3a, "LAlt">>,
       <<\h3b, "LControl">>, <<\h3c, "RShift">>, <<\h3d, "RAlt">>, <<\h3e, "RControl">>,
       <<\h40, "F17">>, <<\h41, "Decimal">>, <<\h43, "Multiply">>, <<\h45, "Add">>,
       <<\h47, "Numlock">>, <<\h49, "VolumeUp">>, <<\h4a, "VolumeDown">>, <<\h4b, "Divide">>,
       <<\h4c, "NumpadEnter">>, <<\h4e, "Subtract">>, <<\h4f, "F18">>, <<\h50, "F19">>,
       <<\h51, "NumpadEquals">>, <<\h52, "Numpad0">>, <<\h53, "Numpad1">>, <<\h54, "Numpad2">>,
       <<\h55, "Numpad3">>, <<\h56, "Numpad4">>, <<\h57, "Numpad5">>, <<\h58, "Numpad6">>,
       <<\h59, "Numpad7">>, <<\h5a, "F20">>, <<\h5b, "Numpad8">>, <<\h5c, "Numpad9">>,
       <<\h5d, "Yen">>, <<\h60, "F5">>, <<\h61, "F6">>, <<\h62, "F7">>,
       <<\h63, "F3">>, <<\h64, "F8">>, <<\h65, "F9">>, <<\h67, "F11">>,
       <<\h69, "F13">>, <<\h6a, "F16">>, <<\h6b, "F14">>, <<\h6d, "F10">>,
       <<\h6f, "F12">>, <<\h71, "F15">>, <<\h72, "Insert">>, <<\h73, "Home">>,
       <<\h74, "PageUp">>, <<\h75, "Delete">>, <<\h76, "F4">>, <<\h77, "End">>,
       <<\h78, "F2">>, <<\h79, "PageDown">>, <<\h7a, "F1">>, <<\h7b, "Left">>,
       <<\h7c, "Right">>, <<\h7d, "Down">>, <<\h7e, "Up">>, <<\h0a, "Caret">> >>

\* Each code some arm names, with the key of the first such arm.
scancode_to_keycode_match ==
    [code \in {scancode_to_keycode_arms[i][1] : i \in DOMAIN scancode_to_keycode_arms} |->
        LET hits == {i \in DOMAIN scancode_to_keycode_arms :
                        scancode_to_keycode_arms[i][1] = code}
        IN  scancode_to_keycode_arms[CHOOSE i \in hits : \A j \in hits : i <= j][2]]

\* Faulty variant: only the low seven bits of the code are looked up.
scancode_to_keycode_low_bits(scancode) ==
    IF (scancode % 128) \in DOMAIN scancode_to_keycode_match
    THEN Some(scancode_to_keycode_match[scancode % 128])
    ELSE None

\* The first arm whose pattern is scancode; the wildcard arm is None.
scancode_to_keycode(scancode) ==
    IF scancode \in DOMAIN scancode_to_keycode_match
    THEN Some(scancode_to_keycode_match[scancode])
    ELSE None

\* ------------------------------------------------------ function-key text

\* str::encode_utf16: one unit for a scalar value of the basic plane, a
\* surrogate pair (high, low) for one above it.
RECURSIVE encode_utf16(_)
encode_utf16(string) ==
    IF string = << >> THEN << >>
    ELSE LET ch == Head(string)
             v  == ch - \h10000
         IN  IF ch < \h10000
             THEN <<ch>> \o encode_utf16(Tail(string))
             ELSE <<\hd800 + (v \div \h400), \hdc00 + (v % \h400)>>
                      \o encode_utf16(Tail(string))

\* Faulty variant: the last code unit is inspected, not the first.
check_function_keys_last_unit(string) ==
    LET units == encode_utf16(string)
    IN  IF units # << >>
        THEN LET ch == units[Len(units)]
             IN  CASE ch = \hf718 -> Some("F21")
                   [] ch = \hf719 -> Some("F22")
                   [] ch = \hf71a -> Some("F23")
                   [] ch = \hf71b -> Some("F24")
                   [] OTHER -> None
        ELSE None

check_function_keys(string) ==
    LET units == encode_utf16(string)
    IN  IF units # << >>
        THEN LET ch == Head(units)
             IN  CASE ch = \hf718 -> Some("F21")
                   [] ch = \hf719 -> Some("F22")
                   [] ch = \hf71a -> Some("F23")
                   [] ch = \hf71b -> Some("F24")
                   [] OTHER -> None
        ELSE None

\* ------------------------------------------------------- modifier events

\* A native event, as far as the file reads it: [NSEvent modifierFlags] and
\* [NSEvent keyCode].
NSEvent(flags, code) == [modifierFlags |-> flags, keyCode |-> code]

event_mods(event) ==
    LET flags == event.modifierFlags
        m0 == {}
        m1 == set(m0, SHIFT, contains(flags, {NSShiftKeyMask}))
        m2 == set(m1, CTRL, contains(flags, {NSControlKeyMask}))
        m3 == set(m2, ALT, contains(flags, {NSAlternateKeyMask}))
        m4 == set(m3, LOGO, contains(flags, {NSCommandKeyMask}))
    IN  m4

get_scancode(event) == event.keyCode

\* The WindowEvent::KeyboardInput modifier_event builds once it has detected
\* a transition to `state`.
keyboard_input(event, state) ==
    LET scancode == get_scancode(event)
        virtual_keycode == scancode_to_keycode(scancode)
    IN  [device_id |-> DEVICE_ID,
         input |-> [state |-> state,
                    scancode |-> scancode,
                    virtual_keycode |-> virtual_keycode,
                    modifiers |-> event_mods(event)],
         is_synthetic |-> FALSE]

\* Faulty variant: the release half of the condition is lost.
modifier_event_press_only(event, keymask, was_key_pressed) ==
    IF ~was_key_pressed /\ contains(event.modifierFlags, keymask)
    THEN Some(keyboard_input(event, "Pressed"))
    ELSE None

\* Faulty variant: the event reports the raw native flags, not event_mods of them.
modifier_event_raw_flags(event, keymask, was_key_pressed) ==
    IF \/ ~was_key_pressed /\ contains(event.modifierFlags, keymask)
       \/ was_key_pressed /\ ~contains(event.modifierFlags, keymask)
    THEN LET state == IF was_key_pressed THEN "Released" ELSE "Pressed"
             input == keyboard_input(event, state).input
         IN  Some([keyboard_input(event, state) EXCEPT
                      !.input = [input EXCEPT !.modifiers = event.modifierFlags]])
    ELSE None

\* Faulty variant: level-triggered, a press is reported whenever the flag is held.
modifier_event_level(event, keymask, was_key_pressed) ==
    IF \/ contains(event.modifierFlags, keymask)
       \/ was_key_pressed /\ ~contains(event.modifierFlags, keymask)
    THEN LET state == IF contains(event.modifierFlags, keymask)
                      THEN "Pressed" ELSE "Released"
         IN  Some(keyboard_input(event, state))
    ELSE None

\* Faulty variant: the state of the event is taken the wrong way round.
modifier_event_inverted(event, keymask, was_key_pressed) ==
    IF \/ ~was_key_pressed /\ contains(event.modifierFlags, keymask)
       \/ was_key_pressed /\ ~contains(event.modifierFlags, keymask)
    THEN LET state == IF was_key_pressed THEN "Pressed" ELSE "Released"
         IN  Some(keyboard_input(event, state))
    ELSE None

\* Faulty variant: an event whose scancode has no virtual key is dropped.
modifier_event_mapped_only(event, keymask, was_key_pressed) ==
    IF /\ \/ ~was_key_pressed /\ contains(event.modifierFlags, keymask)
          \/ was_key_pressed /\ ~contains(event.modifierFlags, keymask)
       /\ scancode_to_keycode(get_scancode(event)) # None
    THEN LET state == IF was_key_pressed THEN "Released" ELSE "Pressed"
         IN  Some(keyboard_input(event, state))
    ELSE None

modifier_event(event, keymask, was_key_pressed) ==
    IF \/ ~was_key_pressed /\ contains(event.modifierFlags, keymask)
       \/ was_key_pressed /\ ~contains(event.modifierFlags, keymask)
    THEN LET state == IF was_key_pressed THEN "Released" ELSE "Pressed"
         IN  Some(keyboard_input(event, state))
    ELSE None

\* ------------------------------------------------------------------ state

VARIABLES
    fn,               \* the function of this file being called
    pc,               \* "call": about to run, "return": ret holds its result
    scancode,         \* scancode_to_keycode's argument
    c,                \* char_to_keycode's argument
    keycode,          \* keycode_to_char's first argument
    modifiers_state,  \* keycode_to_char's second argument
    string,           \* check_function_keys' argument
    ns_event,         \* the current native event
    keymask,          \* modifier_event's watched flag
    was_key_pressed,  \* modifier_event's remembered state
    ret,              \* the value returned
    chained,          \* c is the character keycode_to_char returned for keycode
    pressed,          \* the caller's remembered boolean of each watched flag
    emitted,          \* what modifier_event returned for each watched flag
    last,             \* the state of the last event emitted for each watched flag
    delivered,        \* some native event was delivered to the caller
    repeated          \* the current native event is the one delivered before it

args == <<scancode, c, keycode, modifiers_state, string, ns_event, keymask,
          was_key_pressed>>

tracker == <<pressed, emitted, last, delivered, repeated>>

vars == <<fn, pc, ret, chained, args, tracker>>

\* -------------------------------------------------------------- the inputs

\* The characters of the tables, and some that no arm names.
Chars ==
    {char_to_keycode_arms[i][1] : i \in DOMAIN char_to_keycode_arms}
        \cup {char_to_keycode_arms[i][2] : i \in DOMAIN char_to_keycode_arms}
        \cup {" ", "\t", "\n", "\r"}

\* Scalar values a text is made of: a letter, the four function-key code
\* points and their two neighbours, and two values above the basic plane
\* (the second one's low 16 bits are 0xf718).
TextChars ==
    {\h61, \hf717, \hf718, \hf719, \hf71a, \hf71b, \hf71c, \h10000, \h1f718}

Texts == UNION {[1 .. n -> TextChars] : n \in 0 .. MaxLen}

\* The masks a caller watches: shift, control, alt, command.
KeyMasks ==
    {{NSShiftKeyMask}, {NSControlKeyMask}, {NSAlternateKeyMask}, {NSCommandKeyMask}}

KeyCodes == \h38 .. MaxKeyCode

NSEvents ==
    {NSEvent(flags, code) : flags \in SUBSET NSEventModifierFlags, code \in KeyCodes}

\* ------------------------------------------------------------------- calls

NoTracker ==
    /\ pressed = [m \in KeyMasks |-> FALSE]
    /\ emitted = [m \in KeyMasks |-> None]
    /\ last = [m \in KeyMasks |-> "none"]
    /\ delivered = FALSE
    /\ repeated = FALSE

Init ==
    /\ pc = "call"
    /\ ret = None
    /\ chained = FALSE
    /\ NoTracker
    /\ fn \in {"scancode_to_keycode", "char_to_keycode", "keycode_to_char",
               "check_function_keys", "modifier_event"}
    /\ scancode \in (IF fn = "scancode_to_keycode" THEN 0 .. USHRT_MAX ELSE {0})
    /\ c \in (IF fn = "char_to_keycode" THEN Chars ELSE {" "})
    /\ keycode \in (IF fn = "keycode_to_char" THEN VirtualKeyCode ELSE {"A"})
    /\ modifiers_state \in
           (IF fn = "keycode_to_char" THEN SUBSET ModifiersState ELSE {{}})
    /\ string \in (IF fn = "check_function_keys" THEN Texts ELSE {<< >>})
    /\ ns_event \in (IF fn = "modifier_event" THEN NSEvents ELSE {NSEvent({}, 0)})
    /\ keymask \in (IF fn = "modifier_event" THEN KeyMasks ELSE {{NSShiftKeyMask}})
    /\ was_key_pressed \in (IF fn = "modifier_event" THEN BOOLEAN ELSE {FALSE})

Return(value) ==
    /\ pc = "call"
    /\ pc' = "return"
    /\ ret' = value
    /\ UNCHANGED <<fn, chained, args, tracker>>

Call_scancode_to_keycode ==
    /\ fn = "scancode_to_keycode"
    /\ Return(scancode_to_keycode(scancode))

Call_char_to_keycode ==
    /\ fn = "char_to_keycode"
    /\ Return(char_to_keycode(c))

Call_keycode_to_char ==
    /\ fn = "keycode_to_char"
    /\ Return(keycode_to_char(keycode, modifiers_state))

Call_check_function_keys ==
    /\ fn = "check_function_keys"
    /\ Return(check_function_keys(string))

Call_modifier_event ==
    /\ fn = "modifier_event"
    /\ Return(modifier_event(ns_event, keymask, was_key_pressed))

\* The character keycode_to_char returned is handed to char_to_keycode.
Chain ==
    /\ fn = "keycode_to_char"
    /\ pc = "return"
    /\ ret # None
    /\ fn' = "char_to_keycode"
    /\ pc' = "call"
    /\ c' = unwrap(ret)
    /\ ret' = None
    /\ chained' = TRUE
    /\ UNCHANGED <<scancode, keycode, modifiers_state, string, ns_event, keymask,
                   was_key_pressed, tracker>>

Next ==
    \/ Call_scancode_to_keycode
    \/ Call_char_to_keycode
    \/ Call_keycode_to_char
    \/ Call_check_function_keys
    \/ Call_modifier_event
    \/ Chain

Spec == Init /\ [][Next]_vars

\* -------------------------------------------------- the caller's tracking

\* The caller of modifier_event: on each native event it asks, for each
\* watched flag, whether the flag's key changed, and remembers the answer.
InitTracker ==
    /\ fn = "modifier_event"
    /\ pc = "return"
    /\ ret = None
    /\ chained = FALSE
    /\ scancode = 0
    /\ c = " "
    /\ keycode = "A"
    /\ modifiers_state = {}
    /\ string = << >>
    /\ ns_event = NSEvent({}, 0)
    /\ keymask = {NSShiftKeyMask}
    /\ was_key_pressed = FALSE
    /\ NoTracker

remember(was, event_option) ==
    IF event_option = None THEN was
    ELSE unwrap(event_option).input.state = "Pressed"

flags_changed(event) ==
    /\ ns_event' = event
    /\ emitted' = [m \in KeyMasks |-> modifier_event(event, m, pressed[m])]
    /\ pressed' = [m \in KeyMasks |-> remember(pressed[m], emitted'[m])]
    /\ last' = [m \in KeyMasks |->
                  IF emitted'[m] = None THEN last[m]
                  ELSE unwrap(emitted'[m]).input.state]
    /\ repeated' = (delivered /\ event = ns_event)
    /\ delivered' = TRUE
    /\ UNCHANGED <<fn, pc, ret, chained, scancode, c, keycode, modifiers_state,
                   string, keymask, was_key_pressed>>

NextTracker == \E event \in NSEvents : flags_changed(event)

SpecTracker == InitTracker /\ [][NextTracker]_vars

\* ------------------------------------------------------------- properties

Returned(f) == fn = f /\ pc = "return"

\* None, or the state of the event.
Decision(event_option) ==
    IF event_option = None THEN "None" ELSE unwrap(event_option).input.state

\* The current native event holds the watched flag.
Holds == contains(ns_event.modifierFlags, keymask)

\* C1: modifier_event produces an event in exactly two cases: was_pressed
\* false and the flag held (a Pressed event), was_pressed true and the flag
\* not held (a Released event); in the two other cases it returns None.
C1_TransitionCases ==
    Returned("modifier_event") =>
        /\ (~was_key_pressed /\ Holds) => Decision(ret) = "Pressed"
        /\ (was_key_pressed /\ ~Holds) => Decision(ret) = "Released"
        /\ (~was_key_pressed /\ ~Holds) => ret = None
        /\ (was_key_pressed /\ Holds) => ret = None

C1_Witness ==
    /\ Returned("modifier_event")
    /\ was_key_pressed
    /\ ~Holds
    /\ ns_event.modifierFlags # {}
    /\ Decision(ret) = "Released"

\* The ModifiersState of a set of native flags: each of the four masks read
\* gives its flag, every other native flag gives none.
Restricted(flags) ==
    {m \in ModifiersState :
        \/ m = SHIFT /\ NSShiftKeyMask \in flags
        \/ m = CTRL /\ NSControlKeyMask \in flags
        \/ m = ALT /\ NSAlternateKeyMask \in flags
        \/ m = LOGO /\ NSCommandKeyMask \in flags}

\* C2: an event modifier_event produces carries the scancode of the current
\* native event, the virtual key scancode_to_keycode gives for that scancode
\* (None when it is unmapped), the current flags restricted to
\* SHIFT/CTRL/ALT/LOGO, and is_synthetic = false.
C2_EventFields ==
    (Returned("modifier_event") /\ ret # None) =>
        /\ unwrap(ret).input.scancode = ns_event.keyCode
        /\ unwrap(ret).input.virtual_keycode = scancode_to_keycode(ns_event.keyCode)
        /\ (\A i \in DOMAIN scancode_to_keycode_arms :
               scancode_to_keycode_arms[i][1] # ns_event.keyCode)
              => unwrap(ret).input.virtual_keycode = None
        /\ unwrap(ret).input.modifiers = Restricted(ns_event.modifierFlags)
        /\ unwrap(ret).is_synthetic = FALSE

C2_Witness ==
    /\ Returned("modifier_event")
    /\ ret # None
    /\ NSAlphaShiftKeyMask \in ns_event.modifierFlags
    /\ unwrap(ret).input.modifiers = {SHIFT, ALT}
    /\ unwrap(ret).input.scancode = \h3c
    /\ unwrap(ret).input.virtual_keycode = Some("RShift")

\* C3: a native event delivered again, with nothing changed since the call
\* before it, produces no event for any watched flag.
C3_NoDuplicate ==
    repeated => \A m \in KeyMasks : emitted[m] = None

C3_Witness ==
    /\ repeated
    /\ pressed[{NSShiftKeyMask}]
    /\ last[{NSShiftKeyMask}] = "Pressed"
    /\ emitted[{NSShiftKeyMask}] = None

\* C4: for every key k and modifiers for which keycode_to_char returns a
\* character, char_to_keycode of that character is Some(k).
C4_InverseLaw ==
    (Returned("char_to_keycode") /\ chained) => ret = Some(keycode)

C4_Witness ==
    /\ Returned("char_to_keycode")
    /\ chained
    /\ keycode = "Key6"
    /\ contains(modifiers_state, {SHIFT})
    /\ c = "^"
    /\ ret = Some("Key6")

LetterKeys ==
    {"A", "B", "C", "D", "E", "F", "G", "H", "I", "J", "K", "L", "M", "N", "O", "P",
     "Q", "R", "S", "T", "U", "V", "W", "X", "Y", "Z"}

\* The digit and punctuation keys with a character mapping.
MappedPunctuationDigitKeys ==
    {k \in VirtualKeyCode \ LetterKeys : keycode_to_char(k, {}) # None}

\* keycode_to_char returned, for a digit or punctuation key, the unshifted
\* glyph of the key without SHIFT and its shifted glyph with SHIFT; the two
\* glyphs of a key are the two patterns of its arm in char_to_keycode.
ShiftPair ==
    (Returned("keycode_to_char") /\ keycode \in MappedPunctuationDigitKeys) =>
        /\ \E i \in DOMAIN char_to_keycode_arms :
              /\ char_to_keycode_arms[i][3] = keycode
              /\ char_to_keycode_arms[i][1] # char_to_keycode_arms[i][2]
              /\ ret = Some(IF SHIFT \in modifiers_state
                            THEN char_to_keycode_arms[i][2]
                            ELSE char_to_keycode_arms[i][1])
        /\ keycode = "Key1" => ret = Some(IF SHIFT \in modifiers_state THEN "!" ELSE "1")

\* C5 as stated: the shift pairs hold for all 34 mapped punctuation/digit
\* keys.
C5_Original ==
    Returned("keycode_to_char") =>
        /\ ShiftPair
        /\ Cardinality(MappedPunctuationDigitKeys) = 34

\* C5, amended: keycode_to_char(Key1) is '1' unshifted and '!' shifted, and
\* the analogous pairs hold for all 21 mapped punctuation/digit keys.
C5_ShiftSymmetry ==
    Returned("keycode_to_char") =>
        /\ ShiftPair
        /\ Cardinality(MappedPunctuationDigitKeys) = 21

C5_Witness ==
    /\ Returned("keycode_to_char")
    /\ keycode = "Key1"
    /\ modifiers_state = {SHIFT, LOGO}
    /\ ret = Some("!")

\* The codes of 0x00..0x7f the table leaves out.
ReservedScancodes ==
    {\h34, \h39, \h3f, \h42, \h44, \h46, \h48, \h4d, \h5e, \h5f, \h66, \h68, \h6c,
     \h6e, \h70, \h7f}

\* C6: scancode_to_keycode gives a result for every 16-bit scancode: None
\* for every code above 0x7f and every reserved code of 0x00..0x7f, and the
\* Caret key for 0x0a.
C6_ScancodeTotal ==
    Returned("scancode_to_keycode") =>
        /\ ret = None \/ (Len(ret) = 1 /\ unwrap(ret) \in VirtualKeyCode)
        /\ scancode > \h7f => ret = None
        /\ scancode \in ReservedScancodes => ret = None
        /\ scancode = \h0a => ret = Some("Caret")

C6_Witness ==
    /\ Returned("scancode_to_keycode")
    /\ scancode = \h0a
    /\ ret = Some("Caret")

\* The key of a first UTF-16 code unit.
FunctionKeyOfUnit(unit) ==
    CASE unit = \hf718 -> Some("F21")
      [] unit = \hf719 -> Some("F22")
      [] unit = \hf71a -> Some("F23")
      [] unit = \hf71b -> Some("F24")
      [] OTHER -> None

\* C7: check_function_keys depends only on the first UTF-16 code unit of
\* its text: 0xf718..0xf71b give F21..F24 whatever follows, any other first
\* unit and the empty text give None.
C7_FirstUnitOnly ==
    Returned("check_function_keys") =>
        /\ string = << >> => ret = None
        /\ string # << >> => ret = FunctionKeyOfUnit(Head(encode_utf16(string)))
        /\ \A other \in Texts :
              (/\ string # << >>
               /\ other # << >>
               /\ Head(encode_utf16(other)) = Head(encode_utf16(string)))
                  => check_function_keys(other) = ret

C7_Witness ==
    /\ Returned("check_function_keys")
    /\ Len(string) = 2
    /\ string[1] = \hf71a
    /\ string[2] = \hf718
    /\ ret = Some("F23")

\* Keys without a character: navigation, function, numeric keypad and
\* modifier keys, and the rest of what no arm of keycode_to_char names.
NavigationKeys ==
    {"Left", "Right", "Up", "Down", "Home", "End", "PageUp", "PageDown", "Insert",
     "Delete"}

FunctionKeys ==
    {"F1", "F2", "F3", "F4", "F5", "F6", "F7", "F8", "F9", "F10", "F11", "F12", "F13",
     "F14", "F15", "F16", "F17", "F18", "F19", "F20", "F21", "F22", "F23", "F24"}

NumpadKeys ==
    {"Numpad0", "Numpad1", "Numpad2", "Numpad3", "Numpad4", "Numpad5", "Numpad6",
     "Numpad7", "Numpad8", "Numpad9", "NumpadEnter", "NumpadEquals", "Numlock", "Add",
     "Subtract", "Multiply", "Divide", "Decimal"}

ModifierKeys ==
    {"LShift", "RShift", "LControl", "RControl", "LAlt", "RAlt", "LWin", "RWin"}

OtherKeys ==
    {"Return", "Tab", "Space", "Caret", "Back", "Escape", "VolumeUp", "VolumeDown",
     "Yen"}

NoCharacterKeys ==
    NavigationKeys \cup FunctionKeys \cup NumpadKeys \cup ModifierKeys \cup OtherKeys

\* C8: keycode_to_char returns None for every key without a character
\* mapping, and for the other keys its result is selected by the SHIFT flag
\* alone: CTRL, ALT and LOGO never change it.
C8_ShiftAlone ==
    Returned("keycode_to_char") =>
        /\ keycode \in NoCharacterKeys => ret = None
        /\ keycode \notin NoCharacterKeys => ret # None
        /\ \A others \in SUBSET {CTRL, ALT, LOGO} :
              keycode_to_char(keycode, (modifiers_state \cap {SHIFT}) \cup others) = ret

C8_Witness ==
    /\ Returned("keycode_to_char")
    /\ keycode = "Semicolon"
    /\ modifiers_state = {CTRL, ALT, LOGO}
    /\ ret = Some(";")

\* After every call the remembered boolean of a watched flag is whether the
\* latest native event holds the flag.
RememberedIsHeld ==
    \A m \in KeyMasks : pressed[m] = contains(ns_event.modifierFlags, m)

\* An event emitted for a watched flag is Pressed when none or a Released
\* one was emitted before it, and Released when a Pressed one was.
Alternates ==
    \A m \in KeyMasks :
        emitted'[m] # None =>
            Decision(emitted'[m]) = (IF last[m] = "Pressed" THEN "Released" ELSE "Pressed")

\* C9: with the caller remembering Pressed as true and Released as false,
\* starting from false, the remembered boolean is after every call whether
\* the latest snapshot holds the watched flag, and the events of a flag
\* alternate Pressed, Released, Pressed, ..., beginning with Pressed.
C9_TrackingAlternates == []RememberedIsHeld /\ [][Alternates]_vars

C9_Witness ==
    /\ delivered
    /\ Decision(emitted[{NSControlKeyMask}]) = "Pressed"
    /\ last[{NSShiftKeyMask}] = "Released"
    /\ emitted[{NSShiftKeyMask}] = None
    /\ pressed[{NSControlKeyMask}]
    /\ ~pressed[{NSShiftKeyMask}]

\* C10: whether modifier_event produces an event, and which, depends only
\* on was_pressed and on whether the current flags hold the watched flag:
\* any other native event that agrees on the watched flag, whatever its other
\* flags and its scancode, gives the same decision.
C10_DecisionInputs ==
    Returned("modifier_event") =>
        \A other \in NSEvents :
            (contains(other.modifierFlags, keymask) = Holds)
                => Decision(modifier_event(other, keymask, was_key_pressed)) = Decision(ret)

C10_Witness ==
    /\ Returned("modifier_event")
    /\ keymask = {NSShiftKeyMask}
    /\ ns_event.keyCode = \h3a
    /\ ns_event.modifierFlags = {NSShiftKeyMask, NSAlternateKeyMask, NSAlphaShiftKeyMask}
    /\ Decision(ret) = "Pressed"

====
